---- MODULE Spec2Model ----
(***************************************************************************)
(* Apriori frequent-itemset mining and rule generation (src/system.py).    *)
(*                                                                         *)
(* Items are the integers of Items; an integer stands for an item label    *)
(* and the integer order for the string order list.sort() uses.            *)
(* A support or a confidence is a Python float in the code; here it is the *)
(* exact fraction <<numerator, denominator>> in lowest terms.              *)
(* A dict is a function; where the code iterates over a dict or a set the  *)
(* model takes any order.  The rule list is kept as a bag: the order of    *)
(* its elements is the iteration order of support_data.                    *)
(***************************************************************************)
EXTENDS Integers, Sequences, FiniteSets, Bags, TLC

VARIABLES
    pc,                 \* position of main(): "start", "level1", "loop", "join",
                        \* "prune", "count", "filter", "mined", "ruled", "done", "failed"
    baskets,            \* list of sets, as load_dataset returns it
    min_sup,            \* fraction <<n, d>>
    min_conf,           \* fraction <<n, d>>
    total_baskets,
    support_data,       \* dict: itemset -> support
    current_L,          \* dict: itemset -> support, the previous level
    k,
    candidates,         \* set of itemsets (join step)
    pruned_candidates,  \* set of itemsets (prune step)
    candidate_count,    \* defaultdict(int): itemset -> count
    rules,              \* bag of [lhs, rhs, sup, conf]
    skipped,            \* the (itemset, rhs) pairs whose lhs lookup failed (line 83)
    err,                \* "none" or the exception that ended the run
    output,             \* the reports handed to write_output in this run
    run,                \* 1 for the first run of main, 2 for the second
    prevTable,          \* the first run's support_data
    prevRules           \* the first run's rules

vars == <<pc, baskets, min_sup, min_conf, total_baskets, support_data, current_L, k,
          candidates, pruned_candidates, candidate_count, rules, skipped, err, output,
          run, prevTable, prevRules>>

----
\* Bounds of the model.

MaxBaskets == 3

\* the longest basket list of the runs checked for termination
MaxMineBaskets == 2

Items == {1, 2, 3}

Baskets == SUBSET Items

Itemsets == (SUBSET Items) \ {{}}

\* thresholds: 0 and 3/2 lie outside (0,1]
MinSups == {<<0, 1>>, <<1, 2>>, <<3, 5>>, <<2, 3>>, <<1, 1>>, <<3, 2>>}

MinConfs == {<<2, 3>>, <<1, 1>>}

SupportValues == {<<0, 1>>, <<1, 2>>, <<1, 1>>}

\* the baskets [{A,B},{A,B,C},{A},{B,C},{A,B,C}] with A, B, C as 1, 2, 3
Scenario == <<{1, 2}, {1, 2, 3}, {1}, {2, 3}, {1, 2, 3}>>

BasketLists == UNION {[1..n -> Baskets] : n \in 0..MaxBaskets} \cup {Scenario}

MineLists == UNION {[1..n -> Baskets] : n \in 0..MaxMineBaskets} \cup {Scenario}

\* support tables that did not come from the miner
Tables == UNION {[D -> SupportValues] : D \in SUBSET Itemsets}

----
\* Fractions.

RECURSIVE Gcd(_, _)
Gcd(a, b) == IF b = 0 THEN a ELSE Gcd(b, a % b)

Norm(r) == LET g == Gcd(r[1], r[2]) IN <<r[1] \div g, r[2] \div g>>

\* cnt / total_baskets (total_baskets > 0)
Frac(cnt, total) == Norm(<<cnt, total>>)

\* a >= b on fractions with positive denominators
Geq(a, b) == a[1] * b[2] >= b[1] * a[2]

\* a / b (b # 0)
Div(a, b) == Norm(<<a[1] * b[2], a[2] * b[1]>>)

EmptyMap == [x \in {} |-> 0]

----
\* get_frequent_itemsets

\* count[frozenset([item])] += 1 for every item of one basket
CountBasket(count, basket) ==
    LET hit == {{item} : item \in basket}
    IN  [s \in DOMAIN count \cup hit |->
            (IF s \in DOMAIN count THEN count[s] ELSE 0) + (IF s \in hit THEN 1 ELSE 0)]

RECURSIVE CountItems(_, _, _)
CountItems(bs, i, count) ==
    IF i > Len(bs) THEN count ELSE CountItems(bs, i + 1, CountBasket(count, bs[i]))

\* FrequentOf with > in place of >=
FrequentOfStrict(count, total, ms) ==
    LET keep == {s \in DOMAIN count :
                    Geq(Frac(count[s], total), ms) /\ ~Geq(ms, Frac(count[s], total))}
    IN  [s \in keep |-> Frac(count[s], total)]

\* {itemset: cnt / total for itemset, cnt in count.items() if cnt / total >= min_sup}
FrequentOf(count, total, ms) ==
    LET keep == {s \in DOMAIN count : Geq(Frac(count[s], total), ms)}
    IN  [s \in keep |-> Frac(count[s], total)]

\* DivisionFails with the division done once, outside the comprehension
DivisionFailsEager(count, total) == total = 0

\* a dict comprehension over count divides by total for every key
DivisionFails(count, total) == DOMAIN count # {} /\ total = 0

\* Update with support_data = L in place of support_data.update(L)
UpdateReplaces(sd, L) == L

\* support_data.update(L)
Update(sd, L) == L @@ sd

RECURSIVE Sorted(_)
Sorted(S) ==
    IF S = {} THEN <<>>
    ELSE LET m == CHOOSE x \in S : \A y \in S : x <= y
         IN  <<m>> \o Sorted(S \ {m})

\* l[:n]
Slice(l, n) == SubSeq(l, 1, IF n < Len(l) THEN n ELSE Len(l))

Orders(S) == {o \in [1..Cardinality(S) -> S] : \A i, j \in DOMAIN o : i # j => o[i] # o[j]}

\* JoinStep with the prefixes compared over k-1 items in place of k-2
JoinStepLongPrefix(prev, kk) ==
    {prev[i] \cup prev[j] : <<i, j>> \in
        {p \in (1..Len(prev)) \X (1..Len(prev)) :
            /\ p[1] < p[2]
            /\ Slice(Sorted(prev[p[1]]), kk - 1) = Slice(Sorted(prev[p[2]]), kk - 1)
            /\ Cardinality(prev[p[1]] \cup prev[p[2]]) = kk}}

\* JoinStep with j running over i+1 alone
JoinStepAdjacent(prev, kk) ==
    {prev[i] \cup prev[j] : <<i, j>> \in
        {p \in (1..Len(prev)) \X (1..Len(prev)) :
            /\ p[2] = p[1] + 1
            /\ Slice(Sorted(prev[p[1]]), kk - 2) = Slice(Sorted(prev[p[2]]), kk - 2)
            /\ Cardinality(prev[p[1]] \cup prev[p[2]]) = kk}}

\* the join step over prev_itemsets, a list
JoinStep(prev, kk) ==
    {prev[i] \cup prev[j] : <<i, j>> \in
        {p \in (1..Len(prev)) \X (1..Len(prev)) :
            /\ p[1] < p[2]
            /\ Slice(Sorted(prev[p[1]]), kk - 2) = Slice(Sorted(prev[p[2]]), kk - 2)
            /\ Cardinality(prev[p[1]] \cup prev[p[2]]) = kk}}

\* itertools.combinations(candidate, k-1)
Combinations(c, n) == {s \in SUBSET c : Cardinality(s) = n}

\* PruneStep that keeps every candidate
PruneStepKeepsAll(cands, L, kk) == cands

\* the prune step
PruneStep(cands, L, kk) ==
    {c \in cands : \A s \in Combinations(c, kk - 1) : s \in DOMAIN L}

\* CountCandidatesIn without the issubset test
CountCandidatesInAny(cc, basket, pruned) ==
    [c \in DOMAIN cc \cup pruned |-> (IF c \in DOMAIN cc THEN cc[c] ELSE 0) + 1]

\* candidate_count[candidate] += 1 for every candidate inside one basket
CountCandidatesIn(cc, basket, pruned) ==
    LET hit == {c \in pruned : c \subseteq basket}
    IN  [c \in DOMAIN cc \cup hit |->
            (IF c \in DOMAIN cc THEN cc[c] ELSE 0) + (IF c \in hit THEN 1 ELSE 0)]

RECURSIVE CountLoop(_, _, _, _)
CountLoop(bs, i, pruned, cc) ==
    IF i > Len(bs) THEN cc
    ELSE CountLoop(bs, i + 1, pruned, CountCandidatesIn(cc, bs[i], pruned))

CountSupport(bs, pruned) == CountLoop(bs, 1, pruned, EmptyMap)

----
\* generate_rules

\* the (itemset, rhs) pairs the two loops visit
RulePairs(sd) == {p \in (DOMAIN sd) \X Items : Cardinality(p[1]) >= 2 /\ p[2] \in p[1]}

Lhs(p) == p[1] \ {p[2]}

\* Confidence with the quotient upside down
ConfidenceInverted(sd, p) == Div(sd[Lhs(p)], sd[p[1]])

\* support_data[itemset] / support_data[lhs]
Confidence(sd, p) == Div(sd[p[1]], sd[Lhs(p)])

\* the division of line 84 raises ZeroDivisionError
RulesRaise(sd) == \E p \in RulePairs(sd) : Lhs(p) \in DOMAIN sd /\ sd[Lhs(p)][1] = 0

\* one pass of the inner loop body
RuleStep(sd, mc, p, acc) ==
    IF Lhs(p) \in DOMAIN sd /\ Geq(Confidence(sd, p), mc)
    THEN acc (+) SetToBag({[lhs |-> Lhs(p), rhs |-> {p[2]}, sup |-> sd[p[1]],
                            conf |-> Confidence(sd, p)]})
    ELSE acc

RECURSIVE RulesLoop(_, _, _, _)
RulesLoop(sd, mc, todo, acc) ==
    IF todo = {} THEN acc
    ELSE LET p == CHOOSE q \in todo : TRUE
         IN  RulesLoop(sd, mc, todo \ {p}, RuleStep(sd, mc, p, acc))

Skipped(sd) == {p \in RulePairs(sd) : Lhs(p) \notin DOMAIN sd}

----
\* The program.

Init ==
    /\ pc = "start"
    /\ baskets = <<>>
    /\ min_sup = <<1, 1>>
    /\ min_conf = <<1, 1>>
    /\ total_baskets = 0
    /\ support_data = EmptyMap
    /\ current_L = EmptyMap
    /\ k = 0
    /\ candidates = {}
    /\ pruned_candidates = {}
    /\ candidate_count = EmptyMap
    /\ rules = EmptyBag
    /\ skipped = {}
    /\ err = "none"
    /\ output = {}
    /\ run = 1
    /\ prevTable = EmptyMap
    /\ prevRules = EmptyBag

\* main, lines 122-130, and the first two lines of get_frequent_itemsets
Enter(bs, ms) ==
    /\ baskets' = bs
    /\ min_sup' = ms
    /\ total_baskets' = Len(bs)
    /\ support_data' = EmptyMap
    /\ current_L' = EmptyMap
    /\ k' = 0
    /\ candidates' = {}
    /\ pruned_candidates' = {}
    /\ candidate_count' = EmptyMap
    /\ rules' = EmptyBag
    /\ skipped' = {}
    /\ output' = {}
    /\ pc' = "level1"

LoadAndCall ==
    /\ pc = "start"
    /\ \E bs \in BasketLists, ms \in MinSups : Enter(bs, ms)
    /\ UNCHANGED <<min_conf, err, run, prevTable, prevRules>>

\* lines 22-29
Level1 ==
    /\ pc = "level1"
    /\ LET count == CountItems(baskets, 1, EmptyMap)
       IN  IF DivisionFails(count, total_baskets)
           THEN /\ err' = "ZeroDivisionError"
                /\ pc' = "failed"
                /\ UNCHANGED <<support_data, current_L, k>>
           ELSE LET L1 == FrequentOf(count, total_baskets, min_sup)
                IN  /\ support_data' = Update(support_data, L1)
                    /\ current_L' = L1
                    /\ k' = 2
                    /\ pc' = "loop"
                    /\ err' = err
    /\ UNCHANGED <<baskets, min_sup, min_conf, total_baskets, candidates,
                   pruned_candidates, candidate_count, rules, skipped, output,
                   run, prevTable, prevRules>>

\* line 31, the loop is entered
LoopEnter ==
    /\ pc = "loop"
    /\ DOMAIN current_L # {}
    /\ pc' = "join"
    /\ UNCHANGED <<baskets, min_sup, min_conf, total_baskets, support_data, current_L, k,
                   candidates, pruned_candidates, candidate_count, rules, skipped, err,
                   output, run, prevTable, prevRules>>

\* lines 31 and 74, the loop is left and support_data returned
LoopExit ==
    /\ pc = "loop"
    /\ DOMAIN current_L = {}
    /\ pc' = "mined"
    /\ UNCHANGED <<baskets, min_sup, min_conf, total_baskets, support_data, current_L, k,
                   candidates, pruned_candidates, candidate_count, rules, skipped, err,
                   output, run, prevTable, prevRules>>

\* lines 32-44
Join ==
    /\ pc = "join"
    /\ \E prev_itemsets \in Orders(DOMAIN current_L) :
          candidates' = JoinStep(prev_itemsets, k)
    /\ pc' = "prune"
    /\ UNCHANGED <<baskets, min_sup, min_conf, total_baskets, support_data, current_L, k,
                   pruned_candidates, candidate_count, rules, skipped, err, output,
                   run, prevTable, prevRules>>

\* lines 47-57
Prune ==
    /\ pc = "prune"
    /\ pruned_candidates' = PruneStep(candidates, current_L, k)
    /\ pc' = "count"
    /\ UNCHANGED <<baskets, min_sup, min_conf, total_baskets, support_data, current_L, k,
                   candidates, candidate_count, rules, skipped, err, output,
                   run, prevTable, prevRules>>

\* lines 60-64
Count ==
    /\ pc = "count"
    /\ candidate_count' = CountSupport(baskets, pruned_candidates)
    /\ pc' = "filter"
    /\ UNCHANGED <<baskets, min_sup, min_conf, total_baskets, support_data, current_L, k,
                   candidates, pruned_candidates, rules, skipped, err, output,
                   run, prevTable, prevRules>>

\* lines 66-72
Filter ==
    /\ pc = "filter"
    /\ IF DivisionFails(candidate_count, total_baskets)
       THEN /\ err' = "ZeroDivisionError"
            /\ pc' = "failed"
            /\ UNCHANGED <<support_data, current_L, k>>
       ELSE LET L == FrequentOf(candidate_count, total_baskets, min_sup)
            IN  /\ current_L' = L
                /\ support_data' = Update(support_data, L)
                /\ k' = k + 1
                /\ pc' = "loop"
                /\ err' = err
    /\ UNCHANGED <<baskets, min_sup, min_conf, total_baskets, candidates,
                   pruned_candidates, candidate_count, rules, skipped, output,
                   run, prevTable, prevRules>>

\* main line 133 and generate_rules, lines 76-87
GenerateRules ==
    /\ pc = "mined"
    /\ \E mc \in MinConfs :
          /\ run = 2 => mc = min_conf
          /\ min_conf' = mc
          /\ IF RulesRaise(support_data)
             THEN /\ err' = "ZeroDivisionError"
                  /\ pc' = "failed"
                  /\ UNCHANGED <<rules, skipped>>
             ELSE /\ rules' = RulesLoop(support_data, mc, RulePairs(support_data), EmptyBag)
                  /\ skipped' = Skipped(support_data)
                  /\ pc' = "ruled"
                  /\ err' = err
    /\ UNCHANGED <<baskets, min_sup, total_baskets, support_data, current_L, k,
                   candidates, pruned_candidates, candidate_count, output,
                   run, prevTable, prevRules>>

\* main line 136: the table and the rules are handed to write_output
WriteOutput ==
    /\ pc = "ruled"
    /\ output' = {[itemsets |-> support_data, rules |-> rules]}
    /\ pc' = "done"
    /\ UNCHANGED <<baskets, min_sup, min_conf, total_baskets, support_data, current_L, k,
                   candidates, pruned_candidates, candidate_count, rules, skipped, err,
                   run, prevTable, prevRules>>

\* main is run a second time on the same baskets in another order, with the
\* same thresholds
Rerun ==
    /\ pc = "done"
    /\ run = 1
    /\ \E o \in Orders(1..Len(baskets)) :
          Enter([i \in 1..Len(baskets) |-> baskets[o[i]]], min_sup)
    /\ run' = 2
    /\ prevTable' = support_data
    /\ prevRules' = rules
    /\ UNCHANGED <<min_conf, err>>

Next ==
    \/ LoadAndCall
    \/ Level1
    \/ LoopEnter
    \/ LoopExit
    \/ Join
    \/ Prune
    \/ Count
    \/ Filter
    \/ GenerateRules
    \/ WriteOutput
    \/ Rerun

Spec == Init /\ [][Next]_vars

\* get_frequent_itemsets alone, from its entry to its return; the function is
\* sequential and waits for nothing, so it always takes its next step
InitMine ==
    /\ pc = "level1"
    /\ baskets \in MineLists
    /\ min_sup \in MinSups
    /\ min_conf = <<1, 1>>
    /\ total_baskets = Len(baskets)
    /\ support_data = EmptyMap
    /\ current_L = EmptyMap
    /\ k = 0
    /\ candidates = {}
    /\ pruned_candidates = {}
    /\ candidate_count = EmptyMap
    /\ rules = EmptyBag
    /\ skipped = {}
    /\ err = "none"
    /\ output = {}
    /\ run = 1
    /\ prevTable = EmptyMap
    /\ prevRules = EmptyBag

NextMine ==
    \/ Level1
    \/ LoopEnter
    \/ LoopExit
    \/ Join
    \/ Prune
    \/ Count
    \/ Filter

FairMine == InitMine /\ [][NextMine]_vars /\ WF_vars(NextMine)

\* generate_rules on a support table of any content
InitRules ==
    /\ pc = "mined"
    /\ baskets = <<>>
    /\ min_sup = <<1, 1>>
    /\ min_conf = <<1, 1>>
    /\ total_baskets = 0
    /\ support_data \in Tables
    /\ current_L = EmptyMap
    /\ k = 0
    /\ candidates = {}
    /\ pruned_candidates = {}
    /\ candidate_count = EmptyMap
    /\ rules = EmptyBag
    /\ skipped = {}
    /\ err = "none"
    /\ output = {}
    /\ run = 1
    /\ prevTable = EmptyMap
    /\ prevRules = EmptyBag

NextRules ==
    \/ GenerateRules
    \/ WriteOutput

SpecRules == InitRules /\ [][NextRules]_vars

----
\* Reference definitions for the properties below.

Returned == pc \in {"mined", "ruled", "done"}

InLoopBody == pc \in {"join", "prune", "count", "filter"}

\* min_sup lies in (0, 1]
ValidMinSup == min_sup[1] > 0 /\ min_sup[1] <= min_sup[2]

\* the number of baskets that are supersets of S
SupportCount(S) == Cardinality({i \in 1..Len(baskets) : S \subseteq baskets[i]})

\* the itemsets of support >= min_sup
FrequentItemsets ==
    {S \in Itemsets : SupportCount(S) * min_sup[2] >= min_sup[1] * Len(baskets)}

\* f is the fraction n / d
IsFraction(f, n, d) == f[1] * d = n * f[2]

SeenItems == UNION {baskets[i] : i \in 1..Len(baskets)}

\* the items every basket holds
CommonItems == {x \in SeenItems : \A i \in 1..Len(baskets) : x \in baskets[i]}

MaxBasketSize ==
    IF Len(baskets) = 0 THEN 0
    ELSE LET i == CHOOSE m \in 1..Len(baskets) :
                      \A j \in 1..Len(baskets) :
                          Cardinality(baskets[m]) >= Cardinality(baskets[j])
         IN  Cardinality(baskets[i])

ProperSubsets(S) == (SUBSET S) \ {{}, S}

\* the rules the rule generator is to emit from support_data at min_conf; a
\* quotient by a zero support is no number and meets no threshold
ExpectedRules ==
    {[lhs |-> X \ {i}, rhs |-> {i}, sup |-> support_data[X],
      conf |-> Div(support_data[X], support_data[X \ {i}])] :
        <<X, i>> \in {p \in (DOMAIN support_data) \X Items :
                        /\ Cardinality(p[1]) >= 2
                        /\ p[2] \in p[1]
                        /\ (p[1] \ {p[2]}) \in DOMAIN support_data
                        /\ support_data[p[1] \ {p[2]}][1] # 0
                        /\ Geq(Div(support_data[p[1]], support_data[p[1] \ {p[2]}]),
                               min_conf)}}

RulesAreExpected ==
    /\ BagToSet(rules) = ExpectedRules
    /\ \A r \in BagToSet(rules) :
          /\ CopiesIn(r, rules) = 1
          /\ Cardinality(r.rhs) = 1
          /\ r.rhs \cap r.lhs = {}
          /\ \A q \in BagToSet(rules) : (q.lhs = r.lhs /\ q.rhs = r.rhs) => q = r

----
\* C1: on a non-empty basket list and min_sup in (0,1], the returned table has
\* exactly the itemsets whose fraction of superset baskets is >= min_sup as
\* keys, and maps each to that fraction.
C1_TableIsTheFrequentItemsets ==
    (Returned /\ Len(baskets) > 0 /\ ValidMinSup) =>
        /\ DOMAIN support_data = FrequentItemsets
        /\ \A S \in DOMAIN support_data :
              IsFraction(support_data[S], SupportCount(S), Len(baskets))

\* a returned table with a frequent pair, and an itemset of some basket left out
C1_Witness ==
    /\ Returned /\ Len(baskets) > 0 /\ ValidMinSup
    /\ \E S \in DOMAIN support_data : Cardinality(S) = 2
    /\ \E S \in Itemsets : SupportCount(S) > 0 /\ S \notin DOMAIN support_data

\* C2: at all times every itemset of support_data has all its non-empty proper
\* subsets in support_data with support >= min_sup, and generate_rules on the
\* miner's table never takes the branch where the antecedent is missing.
C2_DownwardClosure ==
    /\ \A S \in DOMAIN support_data : \A T \in ProperSubsets(S) :
          T \in DOMAIN support_data /\ Geq(support_data[T], min_sup)
    /\ skipped = {}

\* rules were generated from a table that holds a 3-itemset
C2_Witness ==
    /\ pc = "ruled"
    /\ \E S \in DOMAIN support_data : Cardinality(S) = 3
    /\ skipped = {}

\* C3: for any support table and min_conf, generate_rules returns exactly the
\* rules (X minus {i} => {i}) with X a key of size >= 2, i in X, X minus {i}
\* a key and support(X)/support(X minus {i}) >= min_conf, each once, with a
\* single-item consequent outside the antecedent; it does not fail.
C3_RulesExactlyTheConfidentOnes ==
    pc # "mined" => (err = "none" /\ RulesAreExpected)

\* the same, on the tables where no antecedent has support 0
C3_RulesOnNonZeroSupports ==
    (pc # "mined" /\ ~RulesRaise(support_data)) =>
        /\ err = "none"
        /\ RulesAreExpected
        /\ skipped = {p \in RulePairs(support_data) : Lhs(p) \notin DOMAIN support_data}

\* C4: with min_sup outside (0,1] the run fails with InvalidInput: no table is
\* returned and nothing is written.
C4_InvalidMinSupRejected ==
    (~ValidMinSup /\ pc \notin {"start", "level1"}) =>
        /\ pc = "failed"
        /\ err = "InvalidInput"
        /\ support_data = EmptyMap
        /\ output = {}

\* C5: no division by zero is ever performed: on an empty basket list the
\* miner returns the empty table, and every support of the miner's table is
\* positive, so generate_rules never divides by 0.
C5_NoDivisionByZero ==
    /\ err # "ZeroDivisionError"
    /\ pc # "failed"
    /\ (Returned /\ total_baskets = 0) => support_data = EmptyMap
    /\ \A S \in DOMAIN support_data : support_data[S][1] > 0
    /\ pc = "mined" => ~RulesRaise(support_data)

\* the run on the empty basket list came to its end
C5_Witness == pc = "done" /\ total_baskets = 0 /\ output # {}

\* C6 as stated: with min_sup = 1, if some item is absent from some basket
\* and the baskets are not all identical, the returned table is empty.
C6_EmptyUnlessIdentical ==
    ( /\ Returned
      /\ min_sup = <<1, 1>>
      /\ \E x \in SeenItems : \E i \in 1..Len(baskets) : x \notin baskets[i]
      /\ \E i, j \in 1..Len(baskets) : baskets[i] # baskets[j] )
    => support_data = EmptyMap

\* C6 amended: with min_sup = 1 the returned table holds exactly the
\* non-empty sets of items that every basket holds, each with support 1; it
\* is empty when every item is absent from some basket.
C6_TableOfCommonItems ==
    (Returned /\ min_sup = <<1, 1>>) =>
        /\ DOMAIN support_data = (SUBSET CommonItems) \ {{}}
        /\ \A S \in DOMAIN support_data : support_data[S] = <<1, 1>>

\* min_sup = 1, every item is absent from some basket, the table is empty
C6_Witness ==
    /\ Returned
    /\ min_sup = <<1, 1>>
    /\ SeenItems # {}
    /\ CommonItems = {}
    /\ support_data = EmptyMap

\* C7: in the miner's table support(A) >= support(B) whenever A is a subset
\* of B, and every rule emitted from it has support(union) <= support(lhs)
\* and confidence <= 1.
C7_AntiMonotone ==
    /\ \A A, B \in DOMAIN support_data :
          A \subseteq B => Geq(support_data[A], support_data[B])
    /\ \A r \in BagToSet(rules) :
          /\ Geq(support_data[r.lhs], support_data[r.lhs \cup r.rhs])
          /\ Geq(<<1, 1>>, r.conf)

\* rules of confidence 1 and of confidence below 1 were emitted
C7_Witness ==
    /\ pc = "ruled"
    /\ \E r \in BagToSet(rules) : r.conf = <<1, 1>>
    /\ \E r \in BagToSet(rules) : r.conf # <<1, 1>>

\* C8: the second run, on the same baskets in another order and with the same
\* thresholds, returns the same table and the same collection of rules,
\* whatever order the join step takes the previous level in.
C8_SameResultOnReorder ==
    /\ (run = 2 /\ Returned) => support_data = prevTable
    /\ (run = 2 /\ pc \in {"ruled", "done"}) => rules = prevRules

\* a second run over baskets that are not all the same ended with rules
C8_Witness ==
    /\ run = 2
    /\ pc = "done"
    /\ rules # EmptyBag
    /\ \E i, j \in 1..Len(baskets) : baskets[i] # baskets[j]

\* C9 (state part): inside the loop body 2 <= k <= largest basket + 1; at the
\* loop test the last level holds itemsets of size k-1 alone and the table
\* none larger; on return the last level is empty.
C9_LevelBound ==
    /\ InLoopBody => (k >= 2 /\ k <= MaxBasketSize + 1)
    /\ pc = "loop" =>
          /\ \A S \in DOMAIN current_L : Cardinality(S) = k - 1
          /\ \A S \in DOMAIN support_data : Cardinality(S) <= k - 1
    /\ Returned => current_L = EmptyMap

\* C9: the level loop ends, at the first level whose frequent set is empty,
\* returning the table as accumulated; a level only adds itemsets of the
\* size of that level, and k stays within the largest basket size + 1.
C9_LoopTerminates ==
    /\ []C9_LevelBound
    /\ [][(pc = "loop" /\ DOMAIN current_L = {}) =>
            (pc' = "mined" /\ support_data' = support_data)]_vars
    /\ [][(pc = "loop" /\ DOMAIN current_L # {}) => pc' = "join"]_vars
    /\ [][pc = "filter" =>
            \A S \in DOMAIN support_data' \ DOMAIN support_data : Cardinality(S) = k]_vars
    /\ (pc = "level1") ~> (pc = "mined")

\* the loop was left after a level 3 that found nothing
C9_Witness == pc = "mined" /\ k = 4 /\ \E S \in DOMAIN support_data : Cardinality(S) = 2

\* C10: every candidate that reaches the counting scan has size k and all its
\* (k-1)-subsets in the previous level; nothing else is counted.  In the
\* scenario {A,B,C} is never counted and no 3-itemset enters the table.
C10_PruneBeforeCount ==
    /\ pc \in {"count", "filter"} =>
          \A c \in pruned_candidates :
              /\ Cardinality(c) = k
              /\ \A s \in Combinations(c, k - 1) : s \in DOMAIN current_L
    /\ pc = "filter" => DOMAIN candidate_count \subseteq pruned_candidates
    /\ (baskets = Scenario /\ min_sup = <<3, 5>>) =>
          /\ {1, 2, 3} \notin pruned_candidates
          /\ {1, 2, 3} \notin DOMAIN candidate_count
          /\ \A S \in DOMAIN support_data : Cardinality(S) <= 2

\* a joined 3-candidate with an infrequent pair was dropped before the count
C10_Witness ==
    /\ pc = "count"
    /\ k = 3
    /\ candidates \ pruned_candidates # {}

====
